---- MODULE Spec2Model ----
(***************************************************************************)
(* Wealth Atlas Sync: the key-value storage handler of src/src/handler.js. *)
(* The file holds three versions of the Lambda handler:                    *)
(*   "strict"   exports.main (lines 1-268): crypto meta is validated;      *)
(*   "standard" handler      (lines 270-475): routes on method and         *)
(*              resource, conditional writes, payload must be truthy;      *)
(*   "minimal"  main         (lines 476-589): no validation and no         *)
(*              ConditionExpression.                                       *)
(* A request runs in two steps around its one `await docClient.send`:      *)
(* Call (routing, parsing, validation, building the command) and Complete  *)
(* (DynamoDB executes the command atomically, the handler maps the         *)
(* outcome to a response) or Fail (the service rejects the command).  A    *)
(* request answered without a backend call is one step, Answer.  Requests  *)
(* of different clients interleave between the two steps.                  *)
(***************************************************************************)
EXTENDS Integers, Sequences, FiniteSets, TLC

\* ------------------------------------------------------------------ bounds
NumKeys == 2
NumClients == 2
MaxTime == 1
MaxReqs == 3

KeyIds == 1..NumKeys
Clients == 1..NumClients
Variants == {"strict", "standard", "minimal"}

\* ------------------------------------------------------- JavaScript values
Undefined == [t |-> "undefined"]
Null == [t |-> "null"]
Str(s) == [t |-> "string", s |-> s]
Num(n) == [t |-> "number", n |-> n]
Bool(b) == [t |-> "boolean", b |-> b]
\* the k-th value crypto.randomUUID() / uuidv4() can return
Uuid(k) == [t |-> "string", uuid |-> k]
\* new Date().toISOString() at clock reading n
Iso(n) == [t |-> "string", iso |-> n]

\* typeof v
TypeOf(v) == IF v.t = "null" THEN "object" ELSE v.t

\* !!v
Truthy(v) ==
  CASE v.t = "undefined" -> FALSE
    [] v.t = "null" -> FALSE
    [] v.t = "string" -> IF "s" \in DOMAIN v THEN v.s # "" ELSE TRUE
    [] v.t = "number" -> v.n # 0
    [] v.t = "boolean" -> v.b
    [] OTHER -> TRUE

\* a || b
OrElse(a, b) == IF Truthy(a) THEN a ELSE b

\* obj.f, undefined when the property is absent
Field(obj, f) == IF f \in DOMAIN obj THEN obj[f] ELSE Undefined

\* JSON.stringify of an object literal followed by the client's JSON.parse:
\* properties whose value is undefined are dropped
JsonStringify(obj) ==
  [f \in {g \in DOMAIN obj \ {"t"} : obj[g] # Undefined} |-> obj[f]]

\* An Error object
Error(name, message) == [name |-> name, message |-> message]

\* JSON.parse(text): JSON.parse(null) is null, unparseable text throws
JsonParse(text) ==
  CASE text = Null -> [ok |-> TRUE, value |-> Null]
    [] "json" \in DOMAIN text -> [ok |-> TRUE, value |-> text.json]
    [] OTHER -> [ok |-> FALSE,
                 error |-> Error("SyntaxError", "Unexpected token in JSON")]

\* ------------------------------------------------------------ request data
MinIterations == 100000

CryptoMeta(salt, ver) ==
  [t |-> "object", enc |-> Str("AES-GCM"), kdf |-> Str("PBKDF2-SHA256"),
   iterations |-> Num(250000), salt |-> Str(salt), iv |-> Str("iv"),
   schemaVersion |-> Num(ver)]
MetaA == CryptoMeta("saltA", 7)
MetaB == CryptoMeta("saltB", 8)

Metas == {Undefined, Null, Num(0), MetaA, MetaB}

\* event.body: null, text that is not JSON, or the JSON text of {payload, meta}
BadJson == [t |-> "string", bad |-> TRUE]
JsonOf(payload, meta) ==
  [t |-> "string", json |-> [t |-> "object", payload |-> payload, meta |-> meta]]
\* payload absent or empty; payload "p1" with every meta; payload "p2" with
\* meta omitted or a second crypto meta
Bodies ==
  {Null, BadJson, JsonOf(Undefined, MetaA), JsonOf(Str(""), MetaA),
   JsonOf(Str("p2"), Undefined), JsonOf(Str("p2"), MetaB)}
  \cup {JsonOf(Str("p1"), m) : m \in Metas}

\* event.pathParameters: absent, {} or {keyId}
PathOf(keyId) == [t |-> "object", keyId |-> keyId]
PathParams == {Undefined, PathOf(Undefined)} \cup {PathOf(Uuid(k)) : k \in KeyIds}

Event(method, resource, pp, body) ==
  [httpMethod |-> method, resource |-> resource, pathParameters |-> pp, body |-> body]

\* The requests of the serial specification: every method, every body, keyId
\* given, missing or without pathParameters
Events ==
  {Event("POST", "/data", Undefined, b) : b \in Bodies}
  \cup {Event("PUT", "/data/{keyId}", pp, b) : pp \in PathParams, b \in Bodies}
  \cup {Event(m, "/data/{keyId}", pp, Null) : m \in {"GET", "DELETE"}, pp \in PathParams}
  \cup {Event("OPTIONS", "/data", Undefined, Null), Event("PATCH", "/data", Undefined, Null)}

\* Requests whose method and resource do not belong together, and a preflight
\* request for /data/{keyId} with a body that is not JSON
RouteEvents ==
  {Event("POST", "/data/{keyId}", PathOf(Uuid(1)), JsonOf(Str("p1"), MetaA)),
   Event("DELETE", "/data", PathOf(Uuid(1)), Null),
   Event("OPTIONS", "/data/{keyId}", PathOf(Uuid(1)), BadJson)}
AllEvents == Events \cup RouteEvents

\* The requests of the concurrent specification: well-addressed requests with
\* a body every handler accepts or with meta omitted
RaceBodies == {JsonOf(Str("p1"), MetaA), JsonOf(Str("p2"), MetaB), JsonOf(Str("p1"), Undefined)}
RaceEvents ==
  {Event("POST", "/data", Undefined, b) : b \in RaceBodies}
  \cup {Event("PUT", "/data/{keyId}", PathOf(Uuid(k)), b) : k \in KeyIds, b \in RaceBodies}
  \cup {Event(m, "/data/{keyId}", PathOf(Uuid(k)), Null) : m \in {"GET", "DELETE"}, k \in KeyIds}
  \cup {Event("OPTIONS", "/data", Undefined, Null)}

\* obj without property f, as JSON text that does not mention f parses
Without(obj, f) == [g \in DOMAIN obj \ {f} |-> obj[g]]

\* meta values that differ from the crypto meta MetaA in one property (absent,
\* of another type, empty, zero, or at either side of the iterations minimum),
\* one that differs in two (enc wrong and salt absent), and values that are
\* no object
ValidationMetas ==
  {MetaA, Undefined, Null, Num(0), Str("meta"),
   [MetaA EXCEPT !.enc = Str("AES-CBC")], Without(MetaA, "enc"),
   [MetaA EXCEPT !.kdf = Str("scrypt")], Without(MetaA, "kdf"),
   [MetaA EXCEPT !.iterations = Num(MinIterations)],
   [MetaA EXCEPT !.iterations = Num(MinIterations - 1)],
   [MetaA EXCEPT !.iterations = Num(0)],
   [MetaA EXCEPT !.iterations = Str("250000")], Without(MetaA, "iterations"),
   [MetaA EXCEPT !.salt = Str("")], [MetaA EXCEPT !.salt = Num(1)], Without(MetaA, "salt"),
   [MetaA EXCEPT !.iv = Str("")], Without(MetaA, "iv"),
   [MetaA EXCEPT !.schemaVersion = Num(0)],
   [MetaA EXCEPT !.schemaVersion = Str("7")], Without(MetaA, "schemaVersion"),
   Without([MetaA EXCEPT !.enc = Str("AES-CBC")], "salt")}

\* payload values that are no string: a number, a boolean, an object
NonStringPayloads == {Num(5), Bool(TRUE), [t |-> "object", data |-> Str("p1")]}

\* payload "p1" with every one of these metas; a payload that is absent, empty
\* or no string with a crypto meta and with meta omitted
ValidationBodies ==
  {JsonOf(Str("p1"), m) : m \in ValidationMetas}
  \cup {JsonOf(p, m) : p \in {Undefined, Str("")} \cup NonStringPayloads,
                       m \in {MetaA, Undefined}}

\* Creates, and updates of the first keyId, with these bodies
ValidationEvents ==
  {Event("POST", "/data", Undefined, b) : b \in ValidationBodies}
  \cup {Event("PUT", "/data/{keyId}", PathOf(Uuid(1)), b) : b \in ValidationBodies}

\* Creates and updates whose payload is a string or no string, with a crypto
\* meta, and reads and deletes
PayloadBodies ==
  {JsonOf(p, MetaA) : p \in {Str("p1"), Str("p2")} \cup NonStringPayloads}
PayloadEvents ==
  {Event("POST", "/data", Undefined, b) : b \in PayloadBodies}
  \cup {Event("PUT", "/data/{keyId}", PathOf(Uuid(k)), b) : k \in KeyIds, b \in PayloadBodies}
  \cup {Event(m, "/data/{keyId}", PathOf(Uuid(k)), Null) : m \in {"GET", "DELETE"}, k \in KeyIds}
  \cup {Event("OPTIONS", "/data", Undefined, Null)}

\* ---------------------------------------------------------------- responses
CORS_HEADERS ==
  [AccessControlAllowOrigin |-> "*",
   AccessControlAllowHeaders |->
     "Content-Type,X-Amz-Date,Authorization,X-Api-Key,X-Amz-Security-Token",
   AccessControlAllowMethods |-> "GET,POST,PUT,DELETE,OPTIONS",
   ContentType |-> "application/json"]

\* strict handler's response helper
createResponse(statusCode, body) ==
  [statusCode |-> statusCode, headers |-> CORS_HEADERS, body |-> JsonStringify(body)]

\* Mutant of response: the CORS headers are left out
responseWithoutCors(statusCode, body) ==
  [statusCode |-> statusCode,
   headers |-> [ContentType |-> "application/json"],
   body |-> JsonStringify(body)]

\* standard and minimal handlers' response helper
response(statusCode, body) ==
  [statusCode |-> statusCode,
   headers |-> [ContentType |-> "application/json",
                AccessControlAllowOrigin |-> "*",
                AccessControlAllowHeaders |->
                  "Content-Type,X-Amz-Date,Authorization,X-Api-Key,X-Amz-Security-Token",
                AccessControlAllowMethods |-> "GET,POST,PUT,DELETE,OPTIONS"],
   body |-> JsonStringify(body)]

EmptyObject == [f \in {} |-> Undefined]
ErrorBody(msg) == [error |-> msg]

\* `throw error` in an operation handler's catch
Rethrow == [kind |-> "throw"]

\* What the part of a handler before its `await docClient.send` comes to:
\* a response, a command handed to the backend, or an exception that leaves
\* the operation handler
Return(op, r) == [kind |-> "return", op |-> op, response |-> r]
Send(op, cmd) == [kind |-> "send", op |-> op, command |-> cmd]
Throw(op, e) == [kind |-> "throw", op |-> op, error |-> e]

\* ----------------------------------------------------------------- commands
AttributeNotExists == Str("attribute_not_exists(keyId)")
AttributeExists == Str("attribute_exists(keyId)")

PutCommand(item, cond) ==
  [name |-> "PutCommand", Item |-> item, ConditionExpression |-> cond]
GetCommand(keyId) ==
  [name |-> "GetCommand", Key |-> [keyId |-> keyId]]
\* UpdateExpression in all three handlers:
\* SET version = version + :inc, payload = :payload, meta = :meta, updatedAt = :updatedAt
UpdateCommand(keyId, payload, meta, updatedAt, cond) ==
  [name |-> "UpdateCommand", Key |-> [keyId |-> keyId],
   ExpressionAttributeValues |->
     [inc |-> Num(1), payload |-> payload, meta |-> meta, updatedAt |-> updatedAt],
   ConditionExpression |-> cond]
DeleteCommand(keyId, cond) ==
  [name |-> "DeleteCommand", Key |-> [keyId |-> keyId], ConditionExpression |-> cond]

NewItem(keyId, payload, meta, updatedAt) ==
  [t |-> "object", keyId |-> keyId, version |-> Num(1), payload |-> payload,
   meta |-> meta, updatedAt |-> updatedAt]

\* ----------------------------------------------------------- strict handler
\* validatePayload: the message of the Error it throws, "" when it returns
validatePayload(payload, meta) ==
  IF ~Truthy(payload) \/ TypeOf(payload) # "string"
    THEN "payload is required and must be a string"
  ELSE IF ~Truthy(meta) \/ TypeOf(meta) # "object"
    THEN "meta is required and must be an object"
  ELSE LET enc == Field(meta, "enc")
           kdf == Field(meta, "kdf")
           iterations == Field(meta, "iterations")
           salt == Field(meta, "salt")
           iv == Field(meta, "iv")
           schemaVersion == Field(meta, "schemaVersion")
       IN IF enc # Str("AES-GCM") THEN "meta.enc must be \"AES-GCM\""
          ELSE IF kdf # Str("PBKDF2-SHA256") THEN "meta.kdf must be \"PBKDF2-SHA256\""
          ELSE IF ~Truthy(iterations) \/ TypeOf(iterations) # "number"
                  \/ iterations.n < MinIterations
            THEN "meta.iterations must be a number >= 100000"
          ELSE IF ~Truthy(salt) \/ TypeOf(salt) # "string"
            THEN "meta.salt is required and must be a base64 string"
          ELSE IF ~Truthy(iv) \/ TypeOf(iv) # "string"
            THEN "meta.iv is required and must be a base64 string"
          ELSE IF ~Truthy(schemaVersion) \/ TypeOf(schemaVersion) # "number"
            THEN "meta.schemaVersion is required and must be a number"
          ELSE ""

DestructureError == Error("TypeError", "Cannot destructure property of null or undefined")

\* createDataset up to `await docClient.send(command)`; k is the uuid drawn,
\* now the clock.  Every exception lands in its catch, which answers 400.
createDataset(event, k, now) ==
  LET parsed == JsonParse(event.body)
      fail(msg) == Return("create", createResponse(400,
                     ErrorBody(OrElse(Str(msg), Str("Failed to create dataset")))))
  IN IF ~parsed.ok THEN fail(parsed.error.message)
     ELSE IF parsed.value = Null THEN fail(DestructureError.message)
     ELSE LET payload == Field(parsed.value, "payload")
              meta == Field(parsed.value, "meta")
              invalid == validatePayload(payload, meta)
          IN IF invalid # "" THEN fail(invalid)
             ELSE Send("create",
                       PutCommand(NewItem(Uuid(k), payload, meta, Iso(now)),
                                  AttributeNotExists))

\* createDataset from the await on
createDatasetResume(cmd, out) ==
  IF out.ok
    THEN createResponse(201, [keyId |-> cmd.Item.keyId, version |-> cmd.Item.version,
                              updatedAt |-> cmd.Item.updatedAt])
  ELSE IF out.error.name = "ConditionalCheckFailedException"
    THEN createResponse(409, ErrorBody(Str("Dataset already exists")))
  ELSE createResponse(400,
         ErrorBody(OrElse(Str(out.error.message), Str("Failed to create dataset"))))

getDataset(event) ==
  IF event.pathParameters = Undefined
    THEN Return("read", createResponse(500, ErrorBody(Str("Failed to retrieve dataset"))))
  ELSE LET keyId == Field(event.pathParameters, "keyId")
       IN IF ~Truthy(keyId)
            THEN Return("read", createResponse(400, ErrorBody(Str("keyId is required"))))
          ELSE Send("read", GetCommand(keyId))

getDatasetResume(cmd, out) ==
  IF ~out.ok THEN createResponse(500, ErrorBody(Str("Failed to retrieve dataset")))
  ELSE IF ~Truthy(out.Item) THEN createResponse(404, ErrorBody(Str("Dataset not found")))
  ELSE createResponse(200,
         [keyId |-> Field(out.Item, "keyId"), version |-> Field(out.Item, "version"),
          payload |-> Field(out.Item, "payload"), meta |-> Field(out.Item, "meta"),
          updatedAt |-> Field(out.Item, "updatedAt")])

updateDataset(event, now) ==
  LET parsed == JsonParse(event.body)
      fail(msg) == Return("update", createResponse(400,
                     ErrorBody(OrElse(Str(msg), Str("Failed to update dataset")))))
  IN IF event.pathParameters = Undefined THEN fail(DestructureError.message)
     ELSE IF ~parsed.ok THEN fail(parsed.error.message)
     ELSE IF parsed.value = Null THEN fail(DestructureError.message)
     ELSE LET keyId == Field(event.pathParameters, "keyId")
              payload == Field(parsed.value, "payload")
              meta == Field(parsed.value, "meta")
              invalid == validatePayload(payload, meta)
          IN IF ~Truthy(keyId)
               THEN Return("update",
                           createResponse(400, ErrorBody(Str("keyId is required"))))
             ELSE IF invalid # "" THEN fail(invalid)
             ELSE Send("update",
                       UpdateCommand(keyId, payload, meta, Iso(now), AttributeExists))

updateDatasetResume(cmd, out) ==
  IF out.ok
    THEN createResponse(200, [keyId |-> Field(out.Attributes, "keyId"),
                              version |-> Field(out.Attributes, "version"),
                              updatedAt |-> Field(out.Attributes, "updatedAt")])
  ELSE IF out.error.name = "ConditionalCheckFailedException"
    THEN createResponse(404, ErrorBody(Str("Dataset not found")))
  ELSE createResponse(400,
         ErrorBody(OrElse(Str(out.error.message), Str("Failed to update dataset"))))

deleteDataset(event) ==
  IF event.pathParameters = Undefined
    THEN Return("delete", createResponse(500, ErrorBody(Str("Failed to delete dataset"))))
  ELSE LET keyId == Field(event.pathParameters, "keyId")
       IN IF ~Truthy(keyId)
            THEN Return("delete", createResponse(400, ErrorBody(Str("keyId is required"))))
          ELSE Send("delete", DeleteCommand(keyId, AttributeExists))

deleteDatasetResume(cmd, out) ==
  IF out.ok
    THEN createResponse(200, [message |-> Str("Dataset deleted successfully"),
                              keyId |-> cmd.Key.keyId])
  ELSE IF out.error.name = "ConditionalCheckFailedException"
    THEN createResponse(404, ErrorBody(Str("Dataset not found")))
  ELSE createResponse(500, ErrorBody(Str("Failed to delete dataset")))

\* `Method ${httpMethod} not allowed`
MethodNotAllowed(httpMethod) ==
  [t |-> "string", template |-> "Method ${httpMethod} not allowed",
   httpMethod |-> httpMethod]

\* Mutant of exportsMain: no test for OPTIONS before the switch
exportsMainWithoutPreflight(event, k, now) ==
  CASE event.httpMethod = "POST" -> createDataset(event, k, now)
    [] event.httpMethod = "GET" -> getDataset(event)
    [] event.httpMethod = "PUT" -> updateDataset(event, now)
    [] event.httpMethod = "DELETE" -> deleteDataset(event)
    [] OTHER -> Return("none",
                       createResponse(405, ErrorBody(MethodNotAllowed(event.httpMethod))))

\* exports.main up to the operation handler's await
exportsMain(event, k, now) ==
  CASE event.httpMethod = "OPTIONS" -> Return("options", createResponse(200, EmptyObject))
    [] event.httpMethod = "POST" -> createDataset(event, k, now)
    [] event.httpMethod = "GET" -> getDataset(event)
    [] event.httpMethod = "PUT" -> updateDataset(event, now)
    [] event.httpMethod = "DELETE" -> deleteDataset(event)
    [] OTHER -> Return("none",
                       createResponse(405, ErrorBody(MethodNotAllowed(event.httpMethod))))

exportsMainResume(op, cmd, out) ==
  CASE op = "create" -> createDatasetResume(cmd, out)
    [] op = "read" -> getDatasetResume(cmd, out)
    [] op = "update" -> updateDatasetResume(cmd, out)
    [] op = "delete" -> deleteDatasetResume(cmd, out)

\* --------------------------------------------------------- standard handler
\* event.pathParameters?.keyId
OptionalKeyId(event) ==
  IF event.pathParameters = Undefined \/ event.pathParameters = Null
    THEN Undefined
    ELSE Field(event.pathParameters, "keyId")

EmptyJson == [t |-> "string", json |-> [t |-> "object"]]

\* createData up to the await: exceptions other than the conditional-check
\* failure are rethrown to handler
createData(event, k, now) ==
  LET parsed == JsonParse(OrElse(event.body, EmptyJson))
  IN IF ~parsed.ok THEN Throw("create", parsed.error)
     ELSE IF parsed.value = Null THEN Throw("create", DestructureError)
     ELSE LET body == parsed.value
          IN IF ~Truthy(Field(body, "payload"))
               THEN Return("create", response(400, ErrorBody(Str("payload is required"))))
             ELSE Send("create",
                       PutCommand(NewItem(Uuid(k), Field(body, "payload"),
                                          OrElse(Field(body, "meta"), Null), Iso(now)),
                                  AttributeNotExists))

\* createData from the await on
createDataResume(cmd, out) ==
  IF out.ok
    THEN response(201, [keyId |-> cmd.Item.keyId, version |-> cmd.Item.version,
                        updatedAt |-> cmd.Item.updatedAt])
  ELSE IF out.error.name = "ConditionalCheckFailedException"
    THEN response(409, ErrorBody(Str("Dataset already exists")))
  ELSE Rethrow

getData(event) ==
  LET keyId == OptionalKeyId(event)
  IN IF ~Truthy(keyId)
       THEN Return("read", response(400, ErrorBody(Str("keyId is required"))))
     ELSE Send("read", GetCommand(keyId))

\* Mutant of getDataResume: the `!result.Item` test is missing
getDataResumeNoItemTest(cmd, out) ==
  IF ~out.ok THEN Rethrow
  ELSE response(200,
         [keyId |-> Field(out.Item, "keyId"), version |-> Field(out.Item, "version"),
          payload |-> Field(out.Item, "payload"), meta |-> Field(out.Item, "meta"),
          updatedAt |-> Field(out.Item, "updatedAt")])

getDataResume(cmd, out) ==
  IF ~out.ok THEN Rethrow
  ELSE IF ~Truthy(out.Item) THEN response(404, ErrorBody(Str("Dataset not found")))
  ELSE response(200,
         [keyId |-> Field(out.Item, "keyId"), version |-> Field(out.Item, "version"),
          payload |-> Field(out.Item, "payload"), meta |-> Field(out.Item, "meta"),
          updatedAt |-> Field(out.Item, "updatedAt")])

\* Mutant of updateData: the create's ConditionExpression, attribute_not_exists
updateDataWrongCondition(event, now) ==
  LET keyId == OptionalKeyId(event)
      parsed == JsonParse(OrElse(event.body, EmptyJson))
  IN IF ~Truthy(keyId)
       THEN Return("update", response(400, ErrorBody(Str("keyId is required"))))
     ELSE IF ~parsed.ok THEN Throw("update", parsed.error)
     ELSE IF parsed.value = Null THEN Throw("update", DestructureError)
     ELSE LET body == parsed.value
          IN IF ~Truthy(Field(body, "payload"))
               THEN Return("update", response(400, ErrorBody(Str("payload is required"))))
             ELSE Send("update",
                       UpdateCommand(keyId, Field(body, "payload"),
                                     OrElse(Field(body, "meta"), Null), Iso(now),
                                     AttributeNotExists))

updateData(event, now) ==
  LET keyId == OptionalKeyId(event)
      parsed == JsonParse(OrElse(event.body, EmptyJson))
  IN IF ~Truthy(keyId)
       THEN Return("update", response(400, ErrorBody(Str("keyId is required"))))
     ELSE IF ~parsed.ok THEN Throw("update", parsed.error)
     ELSE IF parsed.value = Null THEN Throw("update", DestructureError)
     ELSE LET body == parsed.value
          IN IF ~Truthy(Field(body, "payload"))
               THEN Return("update", response(400, ErrorBody(Str("payload is required"))))
             ELSE Send("update",
                       UpdateCommand(keyId, Field(body, "payload"),
                                     OrElse(Field(body, "meta"), Null), Iso(now),
                                     AttributeExists))

updateDataResume(cmd, out) ==
  IF out.ok
    THEN response(200, [keyId |-> Field(out.Attributes, "keyId"),
                        version |-> Field(out.Attributes, "version"),
                        updatedAt |-> Field(out.Attributes, "updatedAt")])
  ELSE IF out.error.name = "ConditionalCheckFailedException"
    THEN response(404, ErrorBody(Str("Dataset not found")))
  ELSE Rethrow

deleteData(event) ==
  LET keyId == OptionalKeyId(event)
  IN IF ~Truthy(keyId)
       THEN Return("delete", response(400, ErrorBody(Str("keyId is required"))))
     ELSE Send("delete", DeleteCommand(keyId, AttributeExists))

deleteDataResume(cmd, out) ==
  IF out.ok
    THEN response(200, [message |-> Str("Dataset deleted successfully"),
                        keyId |-> cmd.Key.keyId])
  ELSE IF out.error.name = "ConditionalCheckFailedException"
    THEN response(404, ErrorBody(Str("Dataset not found")))
  ELSE Rethrow

\* Mutant of InternalServerError: the catch answers as for a bad request
InternalServerErrorAsBadRequest ==
  response(400, ErrorBody(Str("Internal Server Error")))

\* handler's catch
InternalServerError == response(500, ErrorBody(Str("Internal Server Error")))

\* handler up to the operation handler's await
handler(event, k, now) ==
  LET m == event.httpMethod
      r == event.resource
      routed ==
        CASE m = "OPTIONS" /\ r = "/data" -> Return("options", response(200, EmptyObject))
          [] m = "OPTIONS" /\ r = "/data/{keyId}" ->
               Return("options", response(200, EmptyObject))
          [] m = "POST" /\ r = "/data" -> createData(event, k, now)
          [] m = "GET" /\ r = "/data/{keyId}" -> getData(event)
          [] m = "PUT" /\ r = "/data/{keyId}" -> updateData(event, now)
          [] m = "DELETE" /\ r = "/data/{keyId}" -> deleteData(event)
          [] OTHER -> Return("none",
                             response(400, ErrorBody(Str("Unsupported method or path"))))
  IN IF routed.kind = "throw" THEN Return(routed.op, InternalServerError) ELSE routed

handlerResume(op, cmd, out) ==
  LET r == CASE op = "create" -> createDataResume(cmd, out)
             [] op = "read" -> getDataResume(cmd, out)
             [] op = "update" -> updateDataResume(cmd, out)
             [] op = "delete" -> deleteDataResume(cmd, out)
  IN IF r = Rethrow THEN InternalServerError ELSE r

\* ---------------------------------------------------------- minimal handler
\* createData of the minimal handler up to the await: no validation, no
\* ConditionExpression, no try/catch of its own
minimalCreateData(event, k, now) ==
  LET parsed == JsonParse(event.body)
  IN IF ~parsed.ok THEN Throw("create", parsed.error)
     ELSE IF parsed.value = Null THEN Throw("create", DestructureError)
     ELSE Send("create",
               PutCommand(NewItem(Uuid(k), Field(parsed.value, "payload"),
                                  Field(parsed.value, "meta"), Iso(now)),
                          Undefined))

minimalCreateDataResume(cmd, out) ==
  IF out.ok
    THEN response(201, [keyId |-> cmd.Item.keyId, version |-> Num(1),
                        updatedAt |-> cmd.Item.updatedAt])
  ELSE Rethrow

minimalGetData(event) ==
  IF event.pathParameters = Undefined THEN Throw("read", DestructureError)
  ELSE Send("read", GetCommand(Field(event.pathParameters, "keyId")))

minimalGetDataResume(cmd, out) ==
  IF ~out.ok THEN Rethrow
  ELSE IF ~Truthy(out.Item) THEN response(404, ErrorBody(Str("Not found")))
  ELSE response(200, out.Item)

minimalUpdateData(event, now) ==
  LET parsed == JsonParse(event.body)
  IN IF event.pathParameters = Undefined THEN Throw("update", DestructureError)
     ELSE IF ~parsed.ok THEN Throw("update", parsed.error)
     ELSE IF parsed.value = Null THEN Throw("update", DestructureError)
     ELSE Send("update",
               UpdateCommand(Field(event.pathParameters, "keyId"),
                             Field(parsed.value, "payload"),
                             Field(parsed.value, "meta"), Iso(now), Undefined))

minimalUpdateDataResume(cmd, out) ==
  IF out.ok THEN response(200, out.Attributes) ELSE Rethrow

minimalDeleteData(event) ==
  IF event.pathParameters = Undefined THEN Throw("delete", DestructureError)
  ELSE Send("delete", DeleteCommand(Field(event.pathParameters, "keyId"), Undefined))

minimalDeleteDataResume(cmd, out) ==
  IF out.ok
    THEN response(200, [message |-> Str("Deleted"), keyId |-> cmd.Key.keyId])
  ELSE Rethrow

\* main's catch
InternalError == response(500, ErrorBody(Str("Internal error")))

\* main up to the operation handler's await
main(event, k, now) ==
  LET m == event.httpMethod
      routed ==
        CASE m = "OPTIONS" -> Return("options", response(200, EmptyObject))
          [] m = "POST" -> minimalCreateData(event, k, now)
          [] m = "GET" -> minimalGetData(event)
          [] m = "PUT" -> minimalUpdateData(event, now)
          [] m = "DELETE" -> minimalDeleteData(event)
          [] OTHER -> Return("none", response(405, ErrorBody(Str("Method not allowed"))))
  IN IF routed.kind = "throw" THEN Return(routed.op, InternalError) ELSE routed

mainResume(op, cmd, out) ==
  LET r == CASE op = "create" -> minimalCreateDataResume(cmd, out)
             [] op = "read" -> minimalGetDataResume(cmd, out)
             [] op = "update" -> minimalUpdateDataResume(cmd, out)
             [] op = "delete" -> minimalDeleteDataResume(cmd, out)
  IN IF r = Rethrow THEN InternalError ELSE r

\* ------------------------------------------------------------------ backend
\* The table: keyId -> item, Undefined where there is none (result.Item)
NoItem == Undefined

Failed(name, message) == [ok |-> FALSE, error |-> Error(name, message)]

\* The document client marshalls the command's values before sending it; with
\* the default options (DynamoDBDocumentClient.from(client)) an undefined
\* value makes marshalling throw
Unmarshallable(cmd) ==
  CASE cmd.name = "PutCommand" ->
         \E f \in DOMAIN cmd.Item \ {"t"} : cmd.Item[f] = Undefined
    [] cmd.name = "UpdateCommand" ->
         \/ cmd.Key.keyId = Undefined
         \/ \E f \in DOMAIN cmd.ExpressionAttributeValues :
              cmd.ExpressionAttributeValues[f] = Undefined
    [] OTHER -> cmd.Key.keyId = Undefined

\* Mutant of CommandKey: every command is executed on the first key of the
\* table, whatever keyId it carries
CommandKeyFirst(cmd) == 1

\* the partition key a command is executed on: Item.keyId or Key.keyId
CommandKey(cmd) ==
  IF cmd.name = "PutCommand" THEN cmd.Item.keyId.uuid ELSE cmd.Key.keyId.uuid

\* Mutant of UpdatedItem: a null :meta keeps the stored meta (a merge)
UpdatedItemKeepsMeta(item, values) ==
  [item EXCEPT !.version = Num(item.version.n + values.inc.n),
               !.payload = values.payload,
               !.meta = IF values.meta = Null THEN item.meta ELSE values.meta,
               !.updatedAt = values.updatedAt]

\* SET version = version + :inc, payload = :payload, meta = :meta, updatedAt = :updatedAt
UpdatedItem(item, values) ==
  [item EXCEPT !.version = Num(item.version.n + values.inc.n),
               !.payload = values.payload,
               !.meta = values.meta,
               !.updatedAt = values.updatedAt]

\* whether the command's ConditionExpression, if it has one, holds of a key
\* that does (exists) or does not hold an item
ConditionHolds(cmd, exists) ==
  LET cond == IF cmd.name = "GetCommand" THEN Undefined ELSE cmd.ConditionExpression
  IN CASE cond = Undefined -> TRUE
       [] cond = AttributeExists -> exists
       [] cond = AttributeNotExists -> ~exists

CheckFailed(table) ==
  [table |-> table,
   out |-> Failed("ConditionalCheckFailedException", "The conditional request failed")]

\* Mutant of UpdateMissing: the update creates the item, as an expression
\* with if_not_exists(version, :zero) would
UpdateMissingUpserts(table, cmd) ==
  IF cmd.ConditionExpression # Undefined THEN CheckFailed(table)
  ELSE LET values == cmd.ExpressionAttributeValues
           new == [t |-> "object", keyId |-> cmd.Key.keyId, version |-> values.inc,
                   payload |-> values.payload, meta |-> values.meta,
                   updatedAt |-> values.updatedAt]
       IN [table |-> [table EXCEPT ![CommandKey(cmd)] = new],
           out |-> [ok |-> TRUE, Attributes |-> new]]

\* An UpdateCommand whose key holds no item: the ConditionExpression
\* attribute_exists(keyId) fails; without one, the operand `version` of
\* `version + :inc` does not exist in the item and DynamoDB rejects the
\* expression.  Nothing is written either way.
UpdateMissing(table, cmd) ==
  IF ~ConditionHolds(cmd, FALSE) THEN CheckFailed(table)
  ELSE [table |-> table,
        out |-> Failed("ValidationException",
                       "The provided expression refers to an attribute that does not exist in the item")]

\* Mutant of GetItem: the item is taken out of the table
GetItemRemoving(table, k) ==
  [table |-> [table EXCEPT ![k] = Undefined],
   out |-> [ok |-> TRUE, Item |-> table[k]]]

\* A GetCommand: the item under the key, the table as it was
GetItem(table, k) ==
  [table |-> table, out |-> [ok |-> TRUE, Item |-> table[k]]]

\* Mutant of ReturnValues: 'ALL_OLD', the item before the update
ReturnValuesAllOld(old, new) == old

\* ReturnValues: 'ALL_NEW': result.Attributes is the item after the update
ReturnValues(old, new) == new

\* docClient.send(command) on table `table`: the table afterwards and the
\* outcome the awaiting handler sees.  A ConditionExpression that fails raises
\* ConditionalCheckFailedException and writes nothing.
docClientSend(table, cmd) ==
  IF Unmarshallable(cmd)
    THEN [table |-> table,
          out |-> Failed("Error", "Pass options.removeUndefinedValues=true")]
  ELSE
    LET k == CommandKey(cmd)
        exists == table[k] # NoItem
    IN IF cmd.name = "GetCommand"
         THEN GetItem(table, k)
       ELSE IF cmd.name = "UpdateCommand" /\ ~exists
         THEN UpdateMissing(table, cmd)
       ELSE IF ~ConditionHolds(cmd, exists)
         THEN CheckFailed(table)
       ELSE IF cmd.name = "PutCommand"
         THEN [table |-> [table EXCEPT ![k] = cmd.Item], out |-> [ok |-> TRUE]]
       ELSE IF cmd.name = "UpdateCommand"
         THEN LET new == UpdatedItem(table[k], cmd.ExpressionAttributeValues)
              IN [table |-> [table EXCEPT ![k] = new],
                  out |-> [ok |-> TRUE, Attributes |-> ReturnValues(table[k], new)]]
       ELSE [table |-> [table EXCEPT ![k] = NoItem], out |-> [ok |-> TRUE]]

\* An error of the service itself, which any command can meet
ServiceError ==
  Failed("ProvisionedThroughputExceededException",
         "The level of configured provisioned throughput for the table was exceeded")

\* ------------------------------------------------------------ state machine
VARIABLES
  variant,      \* which of the three handlers is deployed
  store,        \* the DynamoDB table
  now,          \* the clock new Date() reads
  inflight,     \* per client: the command its request awaits, or Idle
  done,         \* number of requests answered so far
  last,         \* the request answered last, with its response; for a read,
                \* `prev` is the write of the same keyId answered just before
                \* it; for an update, `peer` is the response to the update it
                \* raced, if that one was answered first
  live,         \* history: keyIds created (201) and not deleted (200) since
  everCreated,  \* history: keyIds some create returned with 201
  nUpd,         \* history: per keyId, updates answered 200 since its first create
  versions      \* history: per keyId, versions its successful writes returned

vars == <<variant, store, now, inflight, done, last, live, everCreated, nUpd, versions>>

Idle == [pc |-> "idle"]
\* no racing update has been answered yet
NoPeer == [statusCode |-> 0]
NoLast == [op |-> "init", sent |-> FALSE]

\* the deployed handler up to the operation's await
Dispatch(v, event, k, t) ==
  CASE v = "strict" -> exportsMain(event, k, t)
    [] v = "standard" -> handler(event, k, t)
    [] v = "minimal" -> main(event, k, t)

\* the deployed handler from the await on
Resume(v, op, cmd, out) ==
  CASE v = "strict" -> exportsMainResume(op, cmd, out)
    [] v = "standard" -> handlerResume(op, cmd, out)
    [] v = "minimal" -> mainResume(op, cmd, out)

\* Mutant of AfterAwait: a command that failed otherwise than by the
\* conditional check is sent again
AfterAwaitRetrying(v, op, cmd, out) ==
  IF ~out.ok /\ out.error.name # "ConditionalCheckFailedException"
    THEN Send(op, cmd)
    ELSE Return(op, Resume(v, op, cmd, out))

\* What the handler does once the awaited command has settled with outcome
\* `out`: every path of every operation handler returns a response or throws
\* to the top-level catch, which returns one; none sends the command again
AfterAwait(v, op, cmd, out) == Return(op, Resume(v, op, cmd, out))

Pending == {c \in Clients : inflight[c] # Idle}

\* client d awaits an update of key k
AwaitsUpdate(d, k) ==
  /\ inflight[d] # Idle
  /\ inflight[d].op = "update"
  /\ ~Unmarshallable(inflight[d].command)
  /\ CommandKey(inflight[d].command) = k

Init ==
  /\ variant \in Variants
  /\ store = [k \in KeyIds |-> NoItem]
  /\ now = 0
  /\ inflight = [c \in Clients |-> Idle]
  /\ done = 0
  /\ last = NoLast
  /\ live = {}
  /\ everCreated = {}
  /\ nUpd = [k \in KeyIds |-> 0]
  /\ versions = [k \in KeyIds |-> <<>>]

\* The clock advances
Tick ==
  /\ now < MaxTime
  /\ now' = now + 1
  /\ UNCHANGED <<variant, store, inflight, done, last, live, everCreated, nUpd, versions>>

\* The uuid a create draws: one drawn before (a collision) or the next unused
\* one (uuids are interchangeable, so which unused one is drawn does not matter)
Drawn ==
  everCreated \cup {k \in KeyIds : store[k] # NoItem}
  \cup {CommandKey(inflight[c].command) :
          c \in {d \in Pending : inflight[d].op = "create"}}
Draws == Drawn \cup {k \in KeyIds : \A j \in KeyIds \ Drawn : k <= j}

\* Requests are interchangeable between clients: a new one takes the first
\* idle client
FirstIdle(c) == inflight[c] = Idle /\ \A d \in Clients : d < c => inflight[d] # Idle

\* A request that the handler answers without calling the backend
Answer(c, E) ==
  /\ FirstIdle(c)
  /\ done + Cardinality(Pending) < MaxReqs
  /\ \E event \in E :
       LET r == Dispatch(variant, event, 1, now)
       IN /\ r.kind = "return"
          /\ last' = [event |-> event, op |-> r.op, sent |-> FALSE,
                      calls |-> 0, response |-> r.response]
  /\ done' = done + 1
  /\ UNCHANGED <<variant, store, now, inflight, live, everCreated, nUpd, versions>>

\* A request whose handler reaches `await docClient.send(command)`.  An update
\* sent while another update of the same existing keyId is awaited races it.
Call(c, E) ==
  /\ FirstIdle(c)
  /\ done + Cardinality(Pending) < MaxReqs
  /\ \E event \in E :
     \E k \in (IF event.httpMethod = "POST" THEN Draws ELSE {1}) :
       LET r == Dispatch(variant, event, k, now)
       IN /\ r.kind = "send"
          /\ LET key == IF Unmarshallable(r.command) THEN 0 ELSE CommandKey(r.command)
                 rivals == IF r.op = "update" /\ key \in KeyIds /\ store[key] # NoItem
                             THEN {d \in Clients \ {c} : AwaitsUpdate(d, key)}
                             ELSE {}
             IN inflight' =
                  [d \in Clients |->
                     IF d = c
                       THEN [pc |-> "sent", event |-> event, op |-> r.op,
                             command |-> r.command, calls |-> 1,
                             raced |-> rivals # {}, peer |-> NoPeer]
                     ELSE IF d \in rivals
                       THEN [inflight[d] EXCEPT !.raced = TRUE]
                     ELSE inflight[d]]
  /\ UNCHANGED <<variant, store, now, done, last, live, everCreated, nUpd, versions>>

\* The command client c awaits settles: the table becomes `table`, the handler
\* sees outcome `out` and turns it into the response
Resolve(c, table, out) ==
  LET req == inflight[c]
      cmd == req.command
      step == AfterAwait(variant, req.op, cmd, out)
  IN IF step.kind = "send"
       THEN /\ store' = table
            /\ inflight' = [inflight EXCEPT ![c].command = step.command,
                                            ![c].calls = @ + 1]
            /\ UNCHANGED <<done, last, live, everCreated, nUpd, versions>>
     ELSE
       LET resp == step.response
           key == IF Unmarshallable(cmd) THEN 0 ELSE CommandKey(cmd)
           status == resp.statusCode
           created == req.op = "create" /\ status = 201
           updated == req.op = "update" /\ status = 200
           deleted == req.op = "delete" /\ status = 200
           removed == key \in KeyIds /\ store[key] # NoItem /\ table[key] = NoItem
       IN /\ store' = table
          /\ last' = [event |-> req.event, op |-> req.op, sent |-> TRUE,
                      calls |-> req.calls, command |-> cmd, out |-> out,
                      key |-> key, response |-> resp,
                      raced |-> req.raced, peer |-> req.peer, removed |-> removed,
                      prev |-> IF req.op = "read" /\ last.sent /\ last.key = key
                                    /\ \/ last.op = "create" /\ last.response.statusCode = 201
                                       \/ last.op = "update" /\ last.response.statusCode = 200
                                 THEN [op |-> last.op, event |-> last.event,
                                       command |-> last.command,
                                       response |-> last.response]
                                 ELSE [op |-> "none"]]
          /\ inflight' =
               [d \in Clients |->
                  IF d = c THEN Idle
                  ELSE IF AwaitsUpdate(d, key) /\ inflight[d].raced
                    THEN IF removed
                           THEN [inflight[d] EXCEPT !.raced = FALSE, !.peer = NoPeer]
                         ELSE IF req.op = "update" /\ req.raced
                           THEN [inflight[d] EXCEPT !.peer = resp]
                         ELSE inflight[d]
                  ELSE inflight[d]]
          /\ live' = IF created THEN live \cup {key}
                     ELSE IF deleted THEN live \ {key}
                     ELSE live
          /\ everCreated' = IF created THEN everCreated \cup {key} ELSE everCreated
          /\ nUpd' = IF created /\ key \notin live THEN [nUpd EXCEPT ![key] = 0]
                     ELSE IF updated THEN [nUpd EXCEPT ![key] = @ + 1]
                     ELSE nUpd
          /\ versions' =
               IF created /\ key \notin live
                 THEN [versions EXCEPT ![key] = <<resp.body.version.n>>]
               ELSE IF created \/ updated
                 THEN [versions EXCEPT ![key] = Append(@, resp.body.version.n)]
               ELSE IF deleted /\ key \in live
                 THEN [versions EXCEPT ![key] = <<>>]
               ELSE versions
          /\ done' = done + 1

\* The backend executes the awaited command of client c atomically and the
\* handler turns the outcome into the response
Complete(c) ==
  /\ inflight[c] # Idle
  /\ LET sent == docClientSend(store, inflight[c].command)
     IN Resolve(c, sent.table, sent.out)
  /\ UNCHANGED <<variant, now>>

\* The backend rejects the awaited command of client c with a service error
\* and writes nothing
Fail(c) ==
  /\ inflight[c] # Idle
  /\ ~Unmarshallable(inflight[c].command)
  /\ Resolve(c, store, ServiceError)
  /\ UNCHANGED <<variant, now>>

\* Concurrent requests of NumClients clients
Next ==
  \/ Tick
  \/ \E c \in Clients : Answer(c, RaceEvents)
  \/ \E c \in Clients : Call(c, RaceEvents)
  \/ \E c \in Clients : Complete(c)

Spec == Init /\ [][Next]_vars

\* One client sending any request, one after the other
NextSerial ==
  \/ Tick
  \/ Answer(1, Events)
  \/ Call(1, Events)
  \/ Complete(1)

SpecSerial == Init /\ [][NextSerial]_vars

\* One client sending any request, also one whose method and resource do not
\* belong together, to a backend that may fail
NextFaulty ==
  \/ Tick
  \/ Answer(1, AllEvents)
  \/ Call(1, AllEvents)
  \/ Complete(1)
  \/ Fail(1)

SpecFaulty == Init /\ [][NextFaulty]_vars

\* The strict handler is the one deployed
InitStrict == Init /\ variant = "strict"

\* One client sending the strict handler creates and updates whose payload
\* and meta take every shape validatePayload distinguishes
NextValidation ==
  \/ Tick
  \/ Answer(1, ValidationEvents)
  \/ Call(1, ValidationEvents)
  \/ Complete(1)

SpecValidation == InitStrict /\ [][NextValidation]_vars

\* One client sending requests whose payload is a string or no string
NextPayloads ==
  \/ Tick
  \/ Answer(1, PayloadEvents)
  \/ Call(1, PayloadEvents)
  \/ Complete(1)

SpecPayloads == Init /\ [][NextPayloads]_vars

\* ------------------------------------------------------------------- claims
\* the request answered last reached the backend and ran operation op
Served(op) == last.sent /\ last.op = op
\* this step answers a request
Answers == done' = done + 1
\* payload and meta of a request body that parses to an object
BodyPayload(event) == Field(JsonParse(event.body).value, "payload")
BodyMeta(event) == Field(JsonParse(event.body).value, "meta")
IsJsonObject(text) == text # Null /\ JsonParse(text).ok

\* C1: a dataset created with 201 and not deleted since has version 1 + N,
\* N the number of updates of its keyId answered 200 since that create,
\* whatever other requests were made meanwhile.
C1_VersionIsOnePlusUpdates ==
  \A k \in live : store[k] # NoItem /\ store[k].version = Num(1 + nUpd[k])

\* C2: a read answered right after a create that returned 201 for a non-empty
\* string payload returns 200 with that payload, version 1 and the submitted
\* meta, null when meta was omitted.
C2_CreateThenRead ==
  (Served("read") /\ last.prev.op = "create"
     /\ TypeOf(BodyPayload(last.prev.event)) = "string"
     /\ Truthy(BodyPayload(last.prev.event)))
  => /\ last.response.statusCode = 200
     /\ Field(last.response.body, "payload") = BodyPayload(last.prev.event)
     /\ Field(last.response.body, "version") = Num(1)
     /\ Field(last.response.body, "meta") =
          (IF BodyMeta(last.prev.event) = Undefined
             THEN Null ELSE BodyMeta(last.prev.event))

\* C3: a keyId holds a dataset exactly when a create returned 201 for it and
\* no delete of it returned 200 since.
C3_ExistsIffCreatedAndNotDeleted ==
  \A k \in KeyIds : (store[k] # NoItem) <=> (k \in live)

\* C3 witness: a dataset was created and deleted, and an update of its keyId
\* answered after that failed and brought nothing back.
C3_Witness ==
  /\ Served("update")
  /\ last.key \in everCreated \ live
  /\ store[last.key] = NoItem
  /\ last.response.statusCode \notin {200, 201}

\* C4: an update or delete of a keyId no create ever returned is answered 404
\* and leaves the table as it was.
C4_NeverCreatedIs404 ==
  [][(Answers /\ last'.sent /\ last'.op \in {"update", "delete"}
        /\ last'.key \in KeyIds \ everCreated)
       => (last'.response.statusCode = 404 /\ store' = store)]_vars

\* C5: a read of a keyId that was never created, or was deleted since, is
\* answered 404.
C5_ReadOfAbsentIs404 ==
  (Served("read") /\ last.key \in KeyIds \ live) => last.response.statusCode = 404

\* C5 witness: a read of a created and then deleted keyId was answered 404.
C5_Witness ==
  /\ Served("read")
  /\ last.key \in everCreated \ live
  /\ last.response.statusCode = 404

\* C6: a create whose body has an empty or absent payload is answered 400 and
\* writes nothing.
C6_CreateWithoutPayloadIs400 ==
  [][(Answers /\ last'.event.httpMethod = "POST" /\ IsJsonObject(last'.event.body)
        /\ BodyPayload(last'.event) \in {Undefined, Str("")})
       => (last'.response.statusCode = 400 /\ store' = store)]_vars

\* C7: the versions the successful writes of one keyId returned, in the order
\* the backend applied them, are strictly increasing (so pairwise distinct).
C7_VersionsStrictlyIncrease ==
  \A k \in KeyIds :
    \A i, j \in 1..Len(versions[k]) : i < j => versions[k][i] < versions[k][j]

C10_CollidingCreateIs409 ==
  [][(Answers /\ last'.sent /\ last'.op = "create" /\ last'.key \in KeyIds
        /\ store[last'.key] # NoItem)
       => (last'.response.statusCode = 409 /\ store' = store)]_vars

\* the backend call of the request answered last failed with an error other
\* than the conditional-check failure
BackendFailed ==
  /\ last.sent
  /\ ~last.out.ok
  /\ last.out.error.name # "ConditionalCheckFailedException"

\* C11: when the storage call of a create, read, update or delete fails with
\* an error other than the conditional-check failure, the request is answered
\* 500 and the error message of the response is not the text of the backend
\* error.
C11_BackendErrorIs500 ==
  BackendFailed
  => /\ last.response.statusCode = 500
     /\ Field(last.response.body, "error") # Str(last.out.error.message)

\* C12: every response, whatever the request and the outcome, carries
\* Content-Type application/json, Access-Control-Allow-Origin *, the
\* Access-Control-Allow-Headers list and Access-Control-Allow-Methods
\* GET,POST,PUT,DELETE,OPTIONS.
C12_EveryResponseHasCorsHeaders ==
  last # NoLast
  => /\ DOMAIN last.response.headers =
          {"ContentType", "AccessControlAllowOrigin",
           "AccessControlAllowHeaders", "AccessControlAllowMethods"}
     /\ last.response.headers.ContentType = "application/json"
     /\ last.response.headers.AccessControlAllowOrigin = "*"
     /\ last.response.headers.AccessControlAllowHeaders =
          "Content-Type,X-Amz-Date,Authorization,X-Api-Key,X-Amz-Security-Token"
     /\ last.response.headers.AccessControlAllowMethods = "GET,POST,PUT,DELETE,OPTIONS"

\* C12 witness: a 500 answered after a failed backend call carries the headers.
C12_Witness ==
  /\ BackendFailed
  /\ last.response.statusCode = 500
  /\ last.response.headers.AccessControlAllowOrigin = "*"

\* C13: a request with method OPTIONS, for /data or /data/{keyId}, is answered
\* 200 with the CORS headers and an empty JSON object, without parsing the
\* body and without a backend call.
C13_PreflightShortCircuits ==
  (last # NoLast /\ last.event.httpMethod = "OPTIONS")
  => /\ last.response.statusCode = 200
     /\ last.response.headers = CORS_HEADERS
     /\ DOMAIN last.response.body = {}
     /\ last.op = "options"
     /\ ~last.sent
     /\ last.calls = 0

\* C13 witness: a preflight request for /data/{keyId} whose body is not JSON
\* was answered 200.
C13_Witness ==
  /\ last # NoLast
  /\ last.event.httpMethod = "OPTIONS"
  /\ last.event.resource = "/data/{keyId}"
  /\ last.event.body = BadJson
  /\ last.response.statusCode = 200

\* the operation the (method, resource) pair of a request belongs to, "none"
\* when the pair is not one of the four routes
RouteOf(event) ==
  CASE event.httpMethod = "POST" /\ event.resource = "/data" -> "create"
    [] event.httpMethod = "GET" /\ event.resource = "/data/{keyId}" -> "read"
    [] event.httpMethod = "PUT" /\ event.resource = "/data/{keyId}" -> "update"
    [] event.httpMethod = "DELETE" /\ event.resource = "/data/{keyId}" -> "delete"
    [] OTHER -> "none"

\* C14: a request other than OPTIONS runs the operation of its
\* (method, resource) pair; a pair that is none of the four routes is answered
\* 400 or 405 with an error body, runs no operation and makes no backend call.
C14_RoutedByMethodAndPath ==
  (last # NoLast /\ last.event.httpMethod # "OPTIONS")
  => /\ last.op = RouteOf(last.event)
     /\ RouteOf(last.event) = "none"
          => /\ last.response.statusCode \in {400, 405}
             /\ "error" \in DOMAIN last.response.body
             /\ ~last.sent

\* the request carries no keyId: pathParameters is absent, or has no keyId
KeyIdMissing(event) ==
  \/ event.pathParameters = Undefined
  \/ Field(event.pathParameters, "keyId") = Undefined

\* C15: a read, update or delete whose keyId is missing, pathParameters being
\* empty or absent, is answered 400 and makes no backend call.
C15_MissingKeyIdIs400 ==
  (/\ last # NoLast
   /\ last.event.httpMethod \in {"GET", "PUT", "DELETE"}
   /\ last.event.resource = "/data/{keyId}"
   /\ KeyIdMissing(last.event))
  => /\ last.response.statusCode = 400
     /\ ~last.sent

\* the input of a create or update is invalid: keyId missing (update), payload
\* empty or absent, or, for the handler that validates meta, payload or meta
\* rejected by validatePayload
InvalidInput(v, event) ==
  \/ event.httpMethod = "PUT" /\ KeyIdMissing(event)
  \/ /\ IsJsonObject(event.body)
     /\ \/ ~Truthy(BodyPayload(event))
        \/ v = "strict" /\ validatePayload(BodyPayload(event), BodyMeta(event)) # ""

\* C16: a create or update whose keyId, payload or meta is invalid is answered
\* 400 and no backend operation is issued for it.
C16_ValidationBeforeBackend ==
  (/\ last # NoLast
   /\ last.event.httpMethod \in {"POST", "PUT"}
   /\ InvalidInput(variant, last.event))
  => /\ last.response.statusCode = 400
     /\ ~last.sent
     /\ last.calls = 0

\* the operation handler throws before its await and does not catch the
\* exception itself: JSON.parse of a body that is not JSON, destructuring of
\* a null body or of absent pathParameters.  (The operation handlers of the
\* strict handler catch everything themselves.)
ThrowsBeforeAwait(v, event) ==
  \/ /\ v = "standard"
     /\ event.body = BadJson
     /\ \/ RouteOf(event) = "create"
        \/ RouteOf(event) = "update" /\ ~KeyIdMissing(event)
  \/ /\ v = "minimal"
     /\ \/ event.httpMethod \in {"POST", "PUT"} /\ event.body \in {BadJson, Null}
        \/ event.httpMethod \in {"GET", "PUT", "DELETE"} /\ event.pathParameters = Undefined

\* C17: every request is answered with a response object (statusCode, headers,
\* body), also one with a null or unparseable body, absent pathParameters or a
\* failing backend call; an exception that no operation handler maps, thrown
\* before the await or by the backend call, is answered 500.
C17_NoExceptionEscapes ==
  last # NoLast
  => /\ DOMAIN last.response = {"statusCode", "headers", "body"}
     /\ last.response.statusCode \in {200, 201, 400, 404, 405, 409, 500}
     /\ (ThrowsBeforeAwait(variant, last.event) \/ (variant # "strict" /\ BackendFailed))
          => last.response.statusCode = 500

\* C17 witness: the standard handler answered 500 to a create whose body is
\* not JSON, without a backend call.
C17_Witness ==
  /\ last # NoLast
  /\ variant = "standard"
  /\ last.event.httpMethod = "POST"
  /\ last.event.body = BadJson
  /\ ~last.sent
  /\ last.response.statusCode = 500

\* C18: an update answered 200 returns the version stored under its keyId
\* right after its write, which is the version stored before it plus 1, also
\* when another update of the same keyId is in flight.
C18_UpdateReturnsNewVersion ==
  [][(Answers /\ last'.sent /\ last'.op = "update" /\ last'.response.statusCode = 200)
       => /\ Field(last'.response.body, "version") = store'[last'.key].version
          /\ Field(last'.response.body, "version") = Num(store[last'.key].version.n + 1)]_vars

\* C18 witness: of two racing updates the one applied second was answered 200
\* with version 3, the version then stored.
C18_Witness ==
  /\ Served("update") /\ last.raced /\ last.peer # NoPeer
  /\ last.response.statusCode = 200
  /\ Field(last.response.body, "version") = Num(3)
  /\ store[last.key] # NoItem
  /\ store[last.key].version = Num(3)

\* C19: a read leaves the table exactly as it was, whether it is answered 200,
\* 400, 404 or 500.
C19_ReadChangesNothing ==
  [][(Answers /\ last'.op = "read") => store' = store]_vars

\* C19 witness: a read of an existing dataset was answered 200 with the stored
\* version and updatedAt.
C19_Witness ==
  /\ Served("read")
  /\ last.response.statusCode = 200
  /\ store[last.key] # NoItem
  /\ Field(last.response.body, "version") = store[last.key].version
  /\ Field(last.response.body, "updatedAt") = store[last.key].updatedAt

\* C20: a request issues at most one backend operation and never sends it
\* again, whether the operation succeeded, failed the conditional check or
\* failed otherwise.
C20_SingleAttempt ==
  /\ \A c \in Clients : inflight[c] # Idle => inflight[c].calls = 1
  /\ last # NoLast => last.calls = (IF last.sent THEN 1 ELSE 0)

\* C20 witness: a request whose backend operation failed with a service error
\* was answered after that one attempt.
C20_Witness ==
  /\ BackendFailed
  /\ last.out = ServiceError
  /\ last.calls = 1

\* the fields a stored record consists of
RecordFields == {"t", "keyId", "version", "payload", "meta", "updatedAt"}

\* the step answers a create, update or delete whose command the backend
\* executed, with status 200 or 201
AppliesWrite(op) ==
  /\ Answers
  /\ last'.sent
  /\ last'.op = op
  /\ last'.response.statusCode \in {200, 201}

\* every record but the one under k is as it was
OthersUnchanged(k) == \A j \in KeyIds \ {k} : store'[j] = store[j]

\* C21: a request answered with a status other than 200 and 201 leaves the
\* table as it was; a create answered 201 has written one whole record
\* (keyId, version, payload, meta, updatedAt), an update answered 200 has
\* replaced version, payload, meta and updatedAt of one stored record
\* together, a delete answered 200 has removed one stored record whole; no
\* other record changes.
C21_NoPartialEffect ==
  [][/\ (Answers /\ last'.response.statusCode \notin {200, 201}) => store' = store
     /\ AppliesWrite("create")
          => /\ store'[last'.key] = last'.command.Item
             /\ DOMAIN store'[last'.key] = RecordFields
             /\ OthersUnchanged(last'.key)
     /\ AppliesWrite("update")
          => LET values == last'.command.ExpressionAttributeValues
                 old == store[last'.key]
                 new == store'[last'.key]
             IN /\ old # NoItem /\ new # NoItem
                /\ DOMAIN new = RecordFields
                /\ new.keyId = old.keyId
                /\ new.version = Num(old.version.n + 1)
                /\ new.payload = values.payload
                /\ new.meta = values.meta
                /\ new.updatedAt = values.updatedAt
                /\ OthersUnchanged(last'.key)
     /\ AppliesWrite("delete")
          => /\ store[last'.key] # NoItem
             /\ store'[last'.key] = NoItem
             /\ OthersUnchanged(last'.key)]_vars

\* C21 without the demand that a delete answered 200 found a record to
\* remove: the table after any request is the table before it or the table
\* with one whole record written, replaced or removed.
C21_WritesAreWhole ==
  [][/\ (Answers /\ last'.response.statusCode \notin {200, 201}) => store' = store
     /\ AppliesWrite("create")
          => /\ store'[last'.key] = last'.command.Item
             /\ DOMAIN store'[last'.key] = RecordFields
             /\ OthersUnchanged(last'.key)
     /\ AppliesWrite("update")
          => /\ store[last'.key] # NoItem
             /\ store'[last'.key] =
                  [t |-> "object", keyId |-> store[last'.key].keyId,
                   version |-> Num(store[last'.key].version.n + 1),
                   payload |-> last'.command.ExpressionAttributeValues.payload,
                   meta |-> last'.command.ExpressionAttributeValues.meta,
                   updatedAt |-> last'.command.ExpressionAttributeValues.updatedAt]
             /\ OthersUnchanged(last'.key)
     /\ AppliesWrite("delete")
          => /\ store'[last'.key] = NoItem
             /\ OthersUnchanged(last'.key)]_vars

\* C22: every stored record carries the keyId it is stored under, an update
\* leaves the keyId of its record as it was, and a create answered 201
\* returns a keyId under which no record was stored before.
C22_KeyIdNeverChanges ==
  [][/\ \A k \in KeyIds : store'[k] # NoItem => store'[k].keyId = Uuid(k)
     /\ AppliesWrite("update") => store'[last'.key].keyId = store[last'.key].keyId
     /\ AppliesWrite("create")
          => /\ last'.response.body.keyId = Uuid(last'.key)
             /\ store[last'.key] = NoItem]_vars

\* C22 for the handlers whose create is conditional
C22_KeyIdNeverChangesConditionalCreate ==
  [][variant # "minimal"
     => /\ \A k \in KeyIds : store'[k] # NoItem => store'[k].keyId = Uuid(k)
        /\ AppliesWrite("update") => store'[last'.key].keyId = store[last'.key].keyId
        /\ AppliesWrite("create")
             => /\ last'.response.body.keyId = Uuid(last'.key)
                /\ store[last'.key] = NoItem]_vars

\* payload is a non-empty string
NonEmptyString(v) == TypeOf(v) = "string" /\ Truthy(v)

\* meta is an object with enc "AES-GCM", kdf "PBKDF2-SHA256", iterations a
\* number >= 100000, salt and iv non-empty strings
CryptoFieldsValid(meta) ==
  /\ meta.t = "object"
  /\ Field(meta, "enc") = Str("AES-GCM")
  /\ Field(meta, "kdf") = Str("PBKDF2-SHA256")
  /\ TypeOf(Field(meta, "iterations")) = "number"
  /\ Field(meta, "iterations").n >= MinIterations
  /\ NonEmptyString(Field(meta, "salt"))
  /\ NonEmptyString(Field(meta, "iv"))

\* the request answered last is a create or update with a keyId (update) and
\* a body that is the JSON text of an object
LastIsWrite ==
  /\ last # NoLast
  /\ last.event.httpMethod \in {"POST", "PUT"}
  /\ last.event.httpMethod = "PUT" => ~KeyIdMissing(last.event)
  /\ IsJsonObject(last.event.body)

\* C23: the strict handler sends the command of a create or update if and only
\* if payload is a non-empty string and meta an object with enc "AES-GCM", kdf
\* "PBKDF2-SHA256", iterations a number >= 100000, salt and iv non-empty
\* strings and schemaVersion a number, 0 included; every other create or
\* update is answered 400 without a command.
C23_StrictValidationIff ==
  (variant = "strict" /\ LastIsWrite)
  => LET payload == BodyPayload(last.event)
         meta == BodyMeta(last.event)
     IN IF /\ NonEmptyString(payload)
           /\ CryptoFieldsValid(meta)
           /\ TypeOf(Field(meta, "schemaVersion")) = "number"
          THEN last.sent
        ELSE ~last.sent /\ last.response.statusCode = 400

\* C23 with schemaVersion a number other than 0
C23_StrictValidationIffNonZero ==
  (variant = "strict" /\ LastIsWrite)
  => LET payload == BodyPayload(last.event)
         meta == BodyMeta(last.event)
     IN IF /\ NonEmptyString(payload)
           /\ CryptoFieldsValid(meta)
           /\ TypeOf(Field(meta, "schemaVersion")) = "number"
           /\ Field(meta, "schemaVersion").n # 0
          THEN last.sent
        ELSE ~last.sent /\ last.response.statusCode = 400

\* the body of the create or update answered last has a payload that is
\* present and is no string
PayloadIsNoString ==
  /\ LastIsWrite
  /\ BodyPayload(last.event) # Undefined
  /\ TypeOf(BodyPayload(last.event)) # "string"

\* C24: a create or update whose payload is present and is no string (a
\* number, a boolean, an object) is answered 400 and sends no command.
C24_NonStringPayloadIs400 ==
  PayloadIsNoString => (last.response.statusCode = 400 /\ ~last.sent)

\* C24 for the strict handler, whose validatePayload tests typeof payload
C24_NonStringPayloadIs400Strict ==
  (variant = "strict" /\ PayloadIsNoString)
  => (last.response.statusCode = 400 /\ ~last.sent)

\* C25: the body of every response with status 400, 404, 405, 409 or 500 is an
\* object with a string `error`, and the body of every delete answered 200 is
\* {message: "Dataset deleted successfully", keyId} with the keyId requested.
C25_ErrorAndDeleteBodies ==
  last # NoLast
  => /\ last.response.statusCode \in {400, 404, 405, 409, 500}
          => TypeOf(Field(last.response.body, "error")) = "string"
     /\ (last.sent /\ last.op = "delete" /\ last.response.statusCode = 200)
          => /\ DOMAIN last.response.body = {"message", "keyId"}
             /\ last.response.body.message = Str("Dataset deleted successfully")
             /\ last.response.body.keyId = last.event.pathParameters.keyId

\* C25 for the strict and the standard handler
C25_ErrorAndDeleteBodiesNotMinimal ==
  (last # NoLast /\ variant # "minimal")
  => /\ last.response.statusCode \in {400, 404, 405, 409, 500}
          => TypeOf(Field(last.response.body, "error")) = "string"
     /\ (last.sent /\ last.op = "delete" /\ last.response.statusCode = 200)
          => /\ DOMAIN last.response.body = {"message", "keyId"}
             /\ last.response.body.message = Str("Dataset deleted successfully")
             /\ last.response.body.keyId = last.event.pathParameters.keyId

\* the fields in the order validatePayload tests them
FieldOrder == <<"payload", "meta", "enc", "kdf", "iterations", "salt", "iv", "schemaVersion">>

\* the fields of a create or update body that violate what the strict handler
\* requires of them; the properties of a meta that is no object do not count
\* separately
ViolatedFields(payload, meta) ==
  LET metaIsObject == meta.t = "object"
  IN (IF NonEmptyString(payload) THEN {} ELSE {"payload"})
     \cup (IF metaIsObject THEN {} ELSE {"meta"})
     \cup (IF metaIsObject /\ Field(meta, "enc") # Str("AES-GCM") THEN {"enc"} ELSE {})
     \cup (IF metaIsObject /\ Field(meta, "kdf") # Str("PBKDF2-SHA256") THEN {"kdf"} ELSE {})
     \cup (IF metaIsObject /\ ~(/\ TypeOf(Field(meta, "iterations")) = "number"
                                /\ Field(meta, "iterations").n >= MinIterations)
             THEN {"iterations"} ELSE {})
     \cup (IF metaIsObject /\ ~NonEmptyString(Field(meta, "salt")) THEN {"salt"} ELSE {})
     \cup (IF metaIsObject /\ ~NonEmptyString(Field(meta, "iv")) THEN {"iv"} ELSE {})
     \cup (IF metaIsObject /\ TypeOf(Field(meta, "schemaVersion")) # "number"
             THEN {"schemaVersion"} ELSE {})

\* the fields an error message names
NamedFields(message) ==
  CASE message = "payload is required and must be a string" -> {"payload"}
    [] message = "meta is required and must be an object" -> {"meta"}
    [] message = "meta.enc must be \"AES-GCM\"" -> {"enc"}
    [] message = "meta.kdf must be \"PBKDF2-SHA256\"" -> {"kdf"}
    [] message = "meta.iterations must be a number >= 100000" -> {"iterations"}
    [] message = "meta.salt is required and must be a base64 string" -> {"salt"}
    [] message = "meta.iv is required and must be a base64 string" -> {"iv"}
    [] message = "meta.schemaVersion is required and must be a number" -> {"schemaVersion"}
    [] OTHER -> {}

\* the strict handler answered 400 to a create or update that violates
\* validation
StrictValidationFailed ==
  /\ variant = "strict"
  /\ LastIsWrite
  /\ ~last.sent
  /\ last.response.statusCode = 400
  /\ ViolatedFields(BodyPayload(last.event), BodyMeta(last.event)) # {}

\* C26: when the strict handler answers 400 to a create or update that
\* violates validation, the error message names every violated field of the
\* request, not only the first.
C26_MessageNamesEveryViolatedField ==
  StrictValidationFailed
  => ViolatedFields(BodyPayload(last.event), BodyMeta(last.event))
       \subseteq NamedFields(last.response.body.error.s)

\* C26 for the first violated field alone: the message names exactly the
\* violated field that comes first in the order of validatePayload's tests
C26_MessageNamesFirstViolatedField ==
  StrictValidationFailed
  => LET violated == ViolatedFields(BodyPayload(last.event), BodyMeta(last.event))
         first == CHOOSE i \in DOMAIN FieldOrder :
                    /\ FieldOrder[i] \in violated
                    /\ \A j \in 1..(i - 1) : FieldOrder[j] \notin violated
     IN NamedFields(last.response.body.error.s) = {FieldOrder[first]}

\* the request answered last is a create, or an update with a keyId, whose
\* body is text that is not JSON
BodyIsNotJson ==
  /\ last # NoLast
  /\ last.event.httpMethod \in {"POST", "PUT"}
  /\ last.event.httpMethod = "PUT" => ~KeyIdMissing(last.event)
  /\ last.event.body = BadJson

\* C27: a create or update whose body is not parseable as JSON is answered
\* 400, not 500, and sends no command.
C27_UnparseableBodyIs400 ==
  BodyIsNotJson => (last.response.statusCode = 400 /\ ~last.sent)

\* C27 for the strict handler, and for all handlers the part that no command
\* is sent
C27_UnparseableBodySendsNothing ==
  BodyIsNotJson
  => /\ ~last.sent
     /\ last.calls = 0
     /\ variant = "strict" => last.response.statusCode = 400

\* a client other than the one answered in this step awaits operation op on
\* keyId k
RivalInFlight(op, k) ==
  \E d \in Clients :
    /\ inflight[d] # Idle
    /\ inflight'[d] = inflight[d]
    /\ inflight[d].op = op
    /\ CommandKey(inflight[d].command) = k

\* the step answers operation op, executed by the backend on keyId k
Applies(op, k) ==
  /\ Answers
  /\ last'.sent
  /\ last'.op = op
  /\ last'.key = k

\* the request answered before this step was operation op on keyId k,
\* answered 200; a delete removed a record
JustDone(op, k) ==
  /\ last.sent
  /\ last.op = op
  /\ last.key = k
  /\ last.response.statusCode = 200
  /\ op = "delete" => last.removed

\* C28: an update and a delete of the same existing keyId, in flight together
\* or one right after the other, are answered update 200 then delete 200, or
\* delete 200 then update 404; after the second the keyId holds no record,
\* and the update that comes after the delete leaves the keyId empty.
C28_UpdateDeleteRace ==
  [][\A k \in KeyIds :
       /\ (Applies("update", k) /\ store[k] # NoItem /\ RivalInFlight("delete", k))
            => last'.response.statusCode = 200
       /\ (Applies("delete", k) /\ store[k] # NoItem /\ RivalInFlight("update", k))
            => last'.response.statusCode = 200 /\ store'[k] = NoItem
       /\ (Applies("delete", k) /\ JustDone("update", k))
            => last'.response.statusCode = 200 /\ store'[k] = NoItem
       /\ (Applies("update", k) /\ JustDone("delete", k))
            => last'.response.statusCode = 404 /\ store'[k] = NoItem]_vars

\* C28 with the status of the update that comes after the delete left open:
\* 404 or 500
C28_UpdateAfterDeleteWritesNothing ==
  [][\A k \in KeyIds :
       /\ (Applies("update", k) /\ store[k] # NoItem /\ RivalInFlight("delete", k))
            => last'.response.statusCode = 200
       /\ (Applies("delete", k) /\ store[k] # NoItem /\ RivalInFlight("update", k))
            => last'.response.statusCode = 200 /\ store'[k] = NoItem
       /\ (Applies("delete", k) /\ JustDone("update", k))
            => last'.response.statusCode = 200 /\ store'[k] = NoItem
       /\ (Applies("update", k) /\ JustDone("delete", k))
            => /\ last'.response.statusCode = (IF variant = "minimal" THEN 500 ELSE 404)
               /\ store'[k] = NoItem]_vars

\* C29: of the deletes of one existing keyId, in flight together or one after
\* the other, the one the backend executes first is answered 200 and removes
\* the record, and a delete executed right after it is answered 404; no
\* delete of a keyId once created is answered 200 when the keyId holds no
\* record (any more).
C29_ExactlyOneDeleteSucceeds ==
  [][\A k \in KeyIds :
       /\ (Applies("delete", k) /\ store[k] # NoItem)
            => last'.response.statusCode = 200 /\ store'[k] = NoItem
       /\ (Applies("delete", k) /\ JustDone("delete", k))
            => last'.response.statusCode = 404
       /\ (Applies("delete", k) /\ k \in everCreated /\ last'.response.statusCode = 200)
            => store[k] # NoItem]_vars

\* C29 for the strict and the standard handler, whose delete is conditional
C29_ExactlyOneConditionalDeleteSucceeds ==
  [][\A k \in KeyIds :
       variant # "minimal"
       => /\ (Applies("delete", k) /\ store[k] # NoItem)
               => last'.response.statusCode = 200 /\ store'[k] = NoItem
          /\ (Applies("delete", k) /\ JustDone("delete", k))
               => last'.response.statusCode = 404
          /\ (Applies("delete", k) /\ k \in everCreated /\ last'.response.statusCode = 200)
               => store[k] # NoItem]_vars

\* the keyId a request is addressed to: the one a create generated, the one
\* in the path of an update or delete
AddressedKey(req) ==
  IF req.op = "create" THEN req.command.Item.keyId.uuid
  ELSE req.event.pathParameters.keyId.uuid

\* C30: a record changes only in a step that answers a create, update or
\* delete addressed to (or generating) the keyId the record is stored under;
\* every record under another keyId is left as it was, whatever the outcome
\* and whatever else is in flight.
C30_OtherKeysUntouched ==
  [][\A j \in KeyIds :
       store'[j] # store[j]
       => /\ Answers
          /\ last'.sent
          /\ last'.op \in {"create", "update", "delete"}
          /\ AddressedKey(last') = j]_vars

\* C30 witness: an update of the second keyId was answered 200 and wrote
\* version 2 there, while the record of the first keyId, created before it,
\* is as created.
C30_Witness ==
  /\ Served("update")
  /\ last.response.statusCode = 200
  /\ AddressedKey(last) = 2
  /\ store[2] # NoItem /\ store[2].version = Num(2)
  /\ store[1] # NoItem /\ store[1].version = Num(1)

====
